---- MODULE Spec2Model ----
(***************************************************************************)
(* tap-shipstation: the window loop of sync() (tap_shipstation/__init__.py) *)
(* driving the page generator ShipStationClient.paginate()                 *)
(* (tap_shipstation/client.py).                                            *)
(*                                                                         *)
(* Time is counted in ticks of 1/TicksPerSecond second of local wall-clock *)
(* time (America/Los_Angeles, no DST change inside a run).  A bookmark is  *)
(* the string "%Y-%m-%d %H:%M:%S", modelled as a whole number of seconds;  *)
(* a query date "%Y-%m-%d" is modelled as a whole number of days.          *)
(***************************************************************************)
EXTENDS Integers, Sequences, FiniteSets, TLC

\* ------------------------------------------------------------- bounds
\* clock resolution below one second (pendulum.now() carries microseconds)
TicksPerSecond == 2
\* the main loop of one paginate() call sends at most MaxReq requests
MaxReq == 4

\* ------------------------------------------------- program constants
PAGE_SIZE == 100
SecondsPerDay == 86400
LookbackDays == 30
Sleep429 == 60

None == -1

Day == SecondsPerDay * TicksPerSecond

\* local time "day d, s seconds after midnight" in ticks
At(d, s) == (d * SecondsPerDay + s) * TicksPerSecond

Min(a, b) == IF a < b THEN a ELSE b

Ceil(a, b) == (a + b - 1) \div b

\* ------------------------------------------------------- conversions
\* end_at.strftime("%Y-%m-%d %H:%M:%S"): the sub-second part is dropped
FormatBookmark(t) == t \div TicksPerSecond

\* pendulum.parse(bookmark, tz='America/Los_Angeles')
ParseBookmark(b) == b * TicksPerSecond

\* start_at.strftime('%Y-%m-%d'): the time of day is dropped
FormatDate(t) == t \div Day

\* ----------------------------------------------------------- streams
StreamIds == {"shipments", "orders", "products"}

\* every stream is queried
SupportedAll(id) == TRUE

\* stream_id in ('shipments', 'orders')
Supported(id) == id \in {"shipments", "orders"}

\* BASE_URL, then LEGACY_BASE_URLS + ALT_ENGINE_BASE_URLS in probing order
Bases == <<"api.shipstation.com/v2/", "api.shipstation.com/",
           "ssapi.shipstation.com/", "api.shipengine.com/v1/">>

\* ------------------------------------------------------------ inputs
\* the clock when sync() starts: day 40, 10:00:00 and one tick
Now0 == At(40, 36000) + 1

Only(id) == <<[id |-> id, selected |-> TRUE]>>

\* products is selected and unsupported, orders is not selected
Mixed ==
  <<[id |-> "shipments", selected |-> TRUE],
    [id |-> "orders", selected |-> FALSE],
    [id |-> "products", selected |-> TRUE]>>

\* the config dict: api_key, and any other key the configuration file holds;
\* start_date stands for a configured default start, None when not supplied
Config(d) == [api_key |-> "key", start_date |-> d]

Run(c, ca, md, od) ==
  [catalog |-> c, created_at |-> ca, modifyDate |-> md, one_day |-> od,
   config |-> Config(None)]

\* the run r with a default start in its configuration
WithStartDate(r, d) == [r EXCEPT !.config = Config(d)]

\* the inputs of a run: the catalog (the streams in order, each with its
\* 'selected' metadata), the bookmarks 'created_at' and the legacy
\* 'modifyDate' of the state file, and SHIPSTATION_TEST_ONE_DAY.  A first run
\* (no bookmark: the 30-day lookback) is taken with the one-day limit.
Runs ==
  { Run(Only("shipments"), None, None, TRUE),
    Run(Only("shipments"), 38 * SecondsPerDay, None, FALSE),
    Run(Only("shipments"), 38 * SecondsPerDay, None, TRUE),
    Run(Only("shipments"), None, 39 * SecondsPerDay + 36000, FALSE),
    Run(Only("shipments"), 39 * SecondsPerDay + 36000, 38 * SecondsPerDay, FALSE),
    Run(Only("shipments"), 40 * SecondsPerDay + 36000, None, FALSE),
    Run(Only("shipments"), 41 * SecondsPerDay, None, FALSE),
    Run(Only("orders"), None, None, TRUE),
    Run(Only("orders"), 39 * SecondsPerDay + 36000, None, FALSE),
    Run(Mixed, 39 * SecondsPerDay + 36000, None, FALSE),
    Run(Mixed, None, None, TRUE),
    WithStartDate(Run(Only("shipments"), None, None, TRUE), 35 * SecondsPerDay),
    WithStartDate(Run(Only("shipments"), 38 * SecondsPerDay, None, TRUE),
                  35 * SecondsPerDay) }

\* what the upstream holds for one window: R records, and the shape of its
\* JSON bodies (a 'total' field or not; page/pages counters or not; a
\* 'links' field: absent, a dict, or not a dict)
Totals == {0, 43, 200, 243}

Shape(t, c, l) == [total |-> t, counters |-> c, links |-> l]

Upstreams ==
  { [R |-> r, shape |-> Shape(TRUE, TRUE, "absent")] : r \in {0, 43, 243} }
  \cup { [R |-> r, shape |-> Shape(FALSE, TRUE, "absent")] : r \in {0, 200} }
  \cup { [R |-> r, shape |-> Shape(FALSE, FALSE, "absent")] : r \in Totals }
  \cup { [R |-> r, shape |-> Shape(TRUE, FALSE, "absent")] : r \in {0, 43} }
  \cup { [R |-> r, shape |-> Shape(FALSE, FALSE, "dict")] : r \in {43, 243} }
  \cup { [R |-> 243, shape |-> Shape(FALSE, FALSE, "other")],
         [R |-> 243, shape |-> Shape(FALSE, TRUE, "dict")] }

\* rate-limit headers of a response: remaining and reset, None when the
\* header is missing or is not an integer
NoHeaders == [remaining |-> None, reset |-> None]

Headers ==
  { NoHeaders,
    [remaining |-> 0, reset |-> 5],
    [remaining |-> 0, reset |-> 100],
    [remaining |-> 0, reset |-> None],
    [remaining |-> 3, reset |-> 5] }

\* rate-limit headers of the responses that are not a 200
ErrorHeaders == { NoHeaders, [remaining |-> 0, reset |-> 100] }

\* rate-limit headers of the answers to candidate requests
CandidateHeaders == { NoHeaders, [remaining |-> 0, reset |-> 5] }

VARIABLES
  config,         \* the config dict passed to sync()
  catalog,        \* catalog.streams
  one_day,        \* SHIPSTATION_TEST_ONE_DAY == 'true'
  clock,          \* pendulum.now()
  state,          \* the in-memory state dict: stream id -> bookmarks
  persisted,      \* the last STATE message written by singer.write_state
  writes,         \* number of STATE messages written
  loaded,         \* the state the run started from
  pc,             \* position of sync(): for, while, request, probe, records,
                  \* resume, commit, done, crashed
  si,             \* index of the stream of the for loop
  schemas,        \* number of SCHEMA messages written per stream
  start_at, end_at, stream_end_at,
  stream_start,   \* start_at as resolved when the stream began
  windows,        \* the windows of the stream log_of, in order, each with
                  \* the outcome of its processing
  log_of,         \* the stream whose windows are recorded
  srv,            \* what the upstream holds for the window being queried
  url,            \* paginate: index into Bases
  tried_legacy,   \* paginate
  params,         \* paginate: the query parameters
  response,       \* paginate: the last response of the main loop
  nreq,           \* requests sent by the main loop of this paginate() call
  nyield,         \* pages yielded by this paginate() call
  all200,         \* every response to this paginate() call was a 200
  emitted,        \* records written for the window
  pending,        \* records of the page in hand not yet written
  cand,           \* paginate: the probing loops' position <<base, variant>>
  nprobe,         \* candidate requests sent by this paginate() call
  last_resp,      \* the last response received by this paginate() call,
                  \* with the request it answered
  slept,          \* seconds blocked since that response was received
  err             \* the exception caught by the handler of sync(), with the
                  \* url, params and request counts of paginate() when it
                  \* was raised

vars == <<config, catalog, one_day, clock, state, persisted, writes, loaded, pc, si, schemas,
          start_at, end_at, stream_end_at, stream_start, windows, log_of, srv,
          url, tried_legacy, params, response, nreq, nyield, all200, emitted,
          pending,
          cand, nprobe, last_resp, slept, err>>

syncVars == <<start_at, end_at, stream_end_at, stream_start, windows, log_of>>
genVars == <<srv, url, tried_legacy, params, response, nreq, nyield, all200,
             cand, nprobe, last_resp, slept>>
inputVars == <<config, catalog, one_day, clock, loaded>>
runVars == <<config, catalog, one_day, loaded>>

NoParams == [created_at_start |-> None, created_at_end |-> None, page |-> 0,
             page_size |-> None, variant |-> 1]
NoResponse == [status |-> 0, json |-> FALSE, total |-> None, page |-> None,
               pages |-> None, links |-> "absent", next |-> "null", items |-> 0,
               headers |-> NoHeaders]
NoSrv == [R |-> 0, shape |-> Shape(FALSE, FALSE, "absent")]
NoLast == [status |-> 0, headers |-> NoHeaders, url |-> 0, page |-> 0,
           probe |-> FALSE]
NoErr == [kind |-> "none", status |-> 0, url |-> 0, variant |-> 0, page |-> 0,
          sent |-> 0, probes |-> 0, yielded |-> 0, emitted |-> 0]

\* an exception raised inside paginate() or the record loop: its kind, the
\* status of the response it carries (0: none), the url and params of
\* paginate(), the requests and candidate requests sent so far, and the
\* pages yielded and the records written for the window when it is raised
Error(kind, status, u, p, sent, probes) ==
  [kind |-> kind, status |-> status, url |-> u, variant |-> p.variant,
   page |-> p.page, sent |-> sent, probes |-> probes, yielded |-> nyield,
   emitted |-> emitted]

Init ==
  /\ clock = Now0
  /\ \E r \in Runs :
       /\ config = r.config
       /\ catalog = r.catalog
       /\ one_day = r.one_day
       /\ state = [s \in StreamIds |->
                     [created_at |-> r.created_at, modifyDate |-> r.modifyDate]]
  /\ persisted = state
  /\ writes = 0
  /\ loaded = state
  /\ pc = "for"
  /\ si = 1
  /\ schemas = [s \in StreamIds |-> 0]
  /\ start_at = 0 /\ end_at = 0 /\ stream_end_at = 0 /\ stream_start = 0
  /\ windows = <<>>
  /\ log_of = "none"
  /\ srv = NoSrv
  /\ url = 1
  /\ tried_legacy = FALSE
  /\ params = NoParams
  /\ response = NoResponse
  /\ nreq = 0 /\ nyield = 0 /\ emitted = 0 /\ pending = 0
  /\ all200 = TRUE
  /\ cand = <<1, 1>> /\ nprobe = 0
  /\ last_resp = NoLast
  /\ slept = 0
  /\ err = NoErr

\* ------------------------------------------------------------ sync()
\* the stream of the for loop
Stream == catalog[si].id

\* singer.get_bookmark(.., 'created_at') or singer.get_bookmark(.., 'modifyDate')
GetBookmark(st, id) ==
  IF st[id].created_at # None THEN st[id].created_at ELSE st[id].modifyDate

\* singer.write_bookmark(state, stream_id, 'created_at', val)
WriteBookmark(st, id, val) == [st EXCEPT ![id].created_at = val]

\* the bookmark is not looked at
StartAtLookback(bookmark, now) == now - LookbackDays * Day

\* start_at: the parsed bookmark, else now minus 30 days
StartAt(bookmark, now) ==
  IF bookmark # None THEN ParseBookmark(bookmark) ELSE now - LookbackDays * Day

\* stream_end_at: now, or start_at + 1 day under SHIPSTATION_TEST_ONE_DAY
StreamEndAt(start, now, limit) ==
  IF limit /\ start + Day < now THEN start + Day ELSE now

\* end_at = min(end_at.add(days=1), stream_end_at)
WindowEnd(e, stop) == Min(e + Day, stop)

\* the params dict built for a window of a supported stream
WindowParams(s, e) ==
  [created_at_start |-> FormatDate(s), created_at_end |-> FormatDate(e),
   page |-> 1, page_size |-> None, variant |-> 1]

\* the bookmark written with the date format of the query parameters
BookmarkValDateOnly(e) == FormatDate(e) * SecondsPerDay

\* val of the bookmark written for a window
BookmarkVal(e) == FormatBookmark(e)

\* the outcome of the window in hand is recorded
Close(ws, res) == [ws EXCEPT ![Len(ws)].res = res]

\* the schema is written before the selection is looked at
SkipUnselectedWithSchema ==
  /\ pc = "for" /\ si <= Len(catalog)
  /\ ~catalog[si].selected
  /\ schemas' = [schemas EXCEPT ![Stream] = @ + 1]
  /\ si' = si + 1
  /\ UNCHANGED <<pc, state, persisted, writes, emitted, pending, err>>
  /\ UNCHANGED <<syncVars, genVars, inputVars>>

\* for stream in catalog.streams: a stream that is not selected is passed over
SkipUnselected ==
  /\ pc = "for" /\ si <= Len(catalog)
  /\ ~catalog[si].selected
  /\ si' = si + 1
  /\ UNCHANGED <<pc, state, persisted, writes, schemas, emitted, pending, err>>
  /\ UNCHANGED <<syncVars, genVars, inputVars>>

\* a selected stream: write_schema, the client, the bookmark, start and end
BeginStream ==
  /\ pc = "for" /\ si <= Len(catalog)
  /\ catalog[si].selected
  /\ schemas' = [schemas EXCEPT ![Stream] = @ + 1]
  /\ LET start == StartAt(GetBookmark(state, Stream), clock)
     IN  /\ start_at' = start
         /\ stream_start' = start
         /\ stream_end_at' = StreamEndAt(start, clock, one_day)
         /\ end_at' = start
  /\ windows' = <<>>
  /\ log_of' = Stream
  /\ pc' = "while"
  /\ emitted' = 0
  /\ UNCHANGED <<state, persisted, writes, si, pending, err>>
  /\ UNCHANGED <<genVars, inputVars>>

\* while end_at < stream_end_at, a supported stream: the window's params are
\* built and client.paginate(stream_id, params) is called
NextWindow ==
  /\ pc = "while" /\ end_at < stream_end_at
  /\ Supported(Stream)
  /\ end_at' = WindowEnd(end_at, stream_end_at)
  /\ params' = WindowParams(start_at, end_at')
  /\ windows' = Append(windows, [s |-> start_at, e |-> end_at', res |-> "open"])
  /\ srv' \in Upstreams
  /\ url' = 1
  /\ tried_legacy' = FALSE
  /\ response' = NoResponse
  /\ nreq' = 0 /\ nyield' = 0 /\ emitted' = 0 /\ pending' = 0
  /\ all200' = TRUE
  /\ cand' = <<1, 1>> /\ nprobe' = 0
  /\ last_resp' = NoLast /\ slept' = 0
  /\ err' = NoErr
  /\ pc' = "request"
  /\ UNCHANGED <<state, persisted, writes, si, schemas, start_at, stream_end_at,
                 stream_start, log_of>>
  /\ UNCHANGED inputVars

\* while end_at < stream_end_at, an unsupported stream: the bookmark is
\* written for the window and no request is made
SkipUnsupported ==
  /\ pc = "while" /\ end_at < stream_end_at
  /\ ~Supported(Stream)
  /\ end_at' = WindowEnd(end_at, stream_end_at)
  /\ state' = WriteBookmark(state, Stream, BookmarkVal(end_at'))
  /\ persisted' = state'
  /\ writes' = writes + 1
  /\ start_at' = end_at'
  /\ windows' = Append(windows, [s |-> start_at, e |-> end_at', res |-> "skip"])
  /\ UNCHANGED <<pc, si, schemas, stream_end_at, stream_start, log_of, emitted,
                 pending, err>>
  /\ UNCHANGED <<genVars, inputVars>>

\* the while loop ends: the for loop goes to the next stream
FinishStream ==
  /\ pc = "while" /\ ~(end_at < stream_end_at)
  /\ si' = si + 1
  /\ pc' = "for"
  /\ err' = NoErr
  /\ UNCHANGED <<state, persisted, writes, schemas, emitted, pending>>
  /\ UNCHANGED <<syncVars, genVars, inputVars>>

\* the for loop ends: sync() returns
Return ==
  /\ pc = "for" /\ si > Len(catalog)
  /\ pc' = "done"
  /\ UNCHANGED <<state, persisted, writes, si, schemas, emitted, pending, err>>
  /\ UNCHANGED <<syncVars, genVars, inputVars>>

\* the generator has ended and the loop over its pages is left: the locals of
\* paginate() and of the record loop are gone
Discard ==
  /\ srv' = NoSrv /\ url' = 1 /\ tried_legacy' = FALSE
  /\ params' = NoParams /\ response' = NoResponse
  /\ nreq' = 0 /\ nyield' = 0 /\ emitted' = 0 /\ pending' = 0
  /\ all200' = TRUE
  /\ cand' = <<1, 1>> /\ nprobe' = 0
  /\ last_resp' = NoLast /\ slept' = 0

\* no handler: the exception leaves sync()
ExceptPropagates == "crashed"

\* where control goes when the try block raises: except Exception ... continue
ExceptTarget == "while"

\* the clock after a call of paginate() has been worked through
Elapsed(now) == now + 1

\* the handler falls through to the bookmark write of the window
RaiseAndAdvance(e) ==
  /\ pc' = ExceptTarget
  /\ err' = e
  /\ windows' = Close(windows, "fail")
  /\ Discard
  /\ state' = WriteBookmark(state, Stream, BookmarkVal(end_at))
  /\ persisted' = state'
  /\ writes' = writes + 1
  /\ start_at' = end_at
  /\ clock' = Elapsed(clock)
  /\ UNCHANGED <<si, schemas, end_at, stream_end_at, stream_start, log_of>>
  /\ UNCHANGED runVars

\* the handler moves start_at to end_at, without a bookmark
RaiseAndSkip(e) ==
  /\ pc' = ExceptTarget
  /\ err' = e
  /\ windows' = Close(windows, "fail")
  /\ Discard
  /\ start_at' = end_at
  /\ clock' = Elapsed(clock)
  /\ UNCHANGED <<state, persisted, writes, si, schemas, end_at, stream_end_at,
                 stream_start, log_of>>
  /\ UNCHANGED runVars

\* the handler sets end_at back to start_at, to query the window again
RaiseAndRetry(e) ==
  /\ pc' = ExceptTarget
  /\ err' = e
  /\ windows' = Close(windows, "fail")
  /\ Discard
  /\ end_at' = start_at
  /\ clock' = Elapsed(clock)
  /\ UNCHANGED <<state, persisted, writes, si, schemas, start_at, stream_end_at,
                 stream_start, log_of>>
  /\ UNCHANGED runVars

\* an exception leaves paginate() or the record loop and is caught by sync():
\* the error is logged and the while loop continues; no bookmark is written
\* and start_at keeps its value
Raise(e) ==
  /\ pc' = ExceptTarget
  /\ err' = e
  /\ windows' = Close(windows, "fail")
  /\ Discard
  /\ clock' = Elapsed(clock)
  /\ UNCHANGED <<state, persisted, writes, si, schemas, start_at, end_at, stream_end_at,
                 stream_start, log_of>>
  /\ UNCHANGED runVars

\* the pages are drained without an exception: the bookmark of the window is
\* written, the state is written out and start_at moves to end_at
Commit ==
  /\ pc = "commit"
  /\ state' = WriteBookmark(state, Stream, BookmarkVal(end_at))
  /\ persisted' = state'
  /\ writes' = writes + 1
  /\ start_at' = end_at
  /\ windows' = Close(windows, "ok")
  /\ pc' = "while"
  /\ err' = NoErr
  /\ Discard
  /\ clock' = Elapsed(clock)
  /\ UNCHANGED <<si, schemas, end_at, stream_end_at, stream_start, log_of>>
  /\ UNCHANGED runVars

\* ---------------------------------------------- ShipStationClient.paginate()
Max(a, b) == IF a > b THEN a ELSE b

\* the records the upstream returns on a page, page_size records to a page
ItemsOn(r, page) == Min(PAGE_SIZE, Max(0, r - (page - 1) * PAGE_SIZE))

\* the value of 'next' in a links dict: null (or no such key), an empty value
\* ({} or ""), or the link of the next page
NextValues == {"null", "empty", "href"}

\* bool(next_link) taken as "is not None"
NotNull(v) == v # "null"

\* bool(next_link)
Truthy(v) == v = "href"

\* the JSON body of a 200 response to the request of a page; nx: the value of
\* 'next' when links is a dict
Body(sv, page, nx, h) ==
  [status |-> 200, json |-> TRUE,
   total |-> IF sv.shape.total THEN sv.R ELSE None,
   page |-> IF sv.shape.counters THEN page ELSE None,
   pages |-> IF sv.shape.counters THEN Ceil(sv.R, PAGE_SIZE) ELSE None,
   links |-> sv.shape.links,
   next |-> IF sv.shape.links = "dict" THEN nx ELSE "null",
   items |-> ItemsOn(sv.R, page),
   headers |-> h]

\* a response that is not a 200 with a JSON body
Plain(status, h) == [NoResponse EXCEPT !.status = status, !.headers = h]

\* has_more with the counters compared by <=
HasMoreInclusive(resp, page_size) ==
  IF resp.page # None /\ resp.pages # None
    THEN resp.page <= resp.pages
    ELSE IF resp.links # "absent"
      THEN resp.links = "dict" /\ Truthy(resp.next)
      ELSE resp.items = page_size

\* has_more with the fallback "the page is not empty"
HasMoreNonEmpty(resp, page_size) ==
  IF resp.page # None /\ resp.pages # None
    THEN resp.page < resp.pages
    ELSE IF resp.links # "absent"
      THEN resp.links = "dict" /\ Truthy(resp.next)
      ELSE resp.items > 0

\* has_more: the page/pages counters, else the links field, else a full page
HasMore(resp, page_size) ==
  IF resp.page # None /\ resp.pages # None
    THEN resp.page < resp.pages
    ELSE IF resp.links # "absent"
      THEN resp.links = "dict" /\ Truthy(resp.next)
      ELSE resp.items = page_size

\* params.get('page_size', PAGE_SIZE)
PageSizeOf(p) == IF p.page_size # None THEN p.page_size ELSE PAGE_SIZE

\* the wait without the extra second
WaitSecondsNoMargin(h) ==
  IF h.remaining # None /\ h.remaining < 1 /\ h.reset # None
    THEN h.reset
    ELSE 0

\* seconds slept before the next page, from the rate-limit headers
WaitSeconds(h) ==
  IF h.remaining # None /\ h.remaining < 1 /\ h.reset # None
    THEN h.reset + 1
    ELSE 0

\* the 429 branch advances the page like the success branch
RetryNextPage(page) == page + 1

\* the page asked for after a 429
RetryPage(page) == page

\* the page asked for after a page with has_more
FollowingPage(page) == page + 1

\* response.raise_for_status() raises for 4xx and 5xx only
RaisesForStatus(status) == status >= 400 /\ status < 600

\* the fallback is taken for every endpoint
ProbesAnyEndpoint(endpoint, status, tried) == status = 404 /\ ~tried

\* the fallback is taken again after a candidate was adopted
ProbesAgain(endpoint, status, tried) == endpoint = "orders" /\ status = 404

\* endpoint == 'orders' and status_code == 404 and not tried_legacy
Probes(endpoint, status, tried) == endpoint = "orders" /\ status = 404 /\ ~tried

\* statuses taken by the final else branch of the main loop
OtherStatuses == {404, 500, 204}

\* statuses of a candidate request other than 200
CandidateStatuses == {401, 404, 429}

\* param_variants: 1 as requested, 2 createDateStart/createDateEnd/pageSize,
\* 3 the same with orderDateStart/orderDateEnd added
Variant(p, v) ==
  IF v = 1 THEN p ELSE [p EXCEPT !.variant = v, !.page_size = None]

\* the candidate after <<b, v>> in "for base ...: for pset ...:"
NextCand(c) == IF c[2] < 3 THEN <<c[1], c[2] + 1>> ELSE <<c[1] + 1, 1>>

\* make_request of the main loop: page_size is set and the request is sent
CanSend ==
  /\ pc = "request"
  /\ nreq < MaxReq

Send ==
  /\ CanSend
  /\ nreq' = nreq + 1
  /\ UNCHANGED <<srv, cand, nprobe>>

\* the response is received
Receive(status, h) ==
  /\ last_resp' = [status |-> status, headers |-> h, url |-> url,
                   page |-> params.page, probe |-> FALSE]
  /\ all200' = (all200 /\ status = 200)

\* requests.get raises (no response): the exception leaves paginate()
TransportError ==
  /\ CanSend
  /\ Raise(Error("transport", 0, url, params, nreq + 1, nprobe))

\* 200 with a JSON body whose total is not 0: the items are yielded
Page ==
  /\ Send
  /\ \E h \in Headers, nx \in NextValues :
       LET body == Body(srv, params.page, nx, h)
       IN  /\ body.total # 0
           /\ response' = body
           /\ Receive(200, h)
           /\ pending' = body.items
  /\ params' = [params EXCEPT !.page_size = PAGE_SIZE]
  /\ nyield' = nyield + 1
  /\ slept' = 0
  /\ pc' = "records"
  /\ UNCHANGED <<state, persisted, writes, si, schemas, emitted, url, tried_legacy>>
  /\ UNCHANGED <<syncVars, inputVars, err>>

\* 200 with a JSON body whose total is 0: 'No Data', the generator ends
NoData ==
  /\ Send
  /\ \E h \in Headers :
       LET body == Body(srv, params.page, "null", h)
       IN  /\ body.total = 0
           /\ response' = body
           /\ Receive(200, h)
  /\ params' = [params EXCEPT !.page_size = PAGE_SIZE]
  /\ slept' = 0
  /\ pc' = "commit"
  /\ UNCHANGED <<state, persisted, writes, si, schemas, emitted, pending, url,
                 tried_legacy, nyield>>
  /\ UNCHANGED <<syncVars, inputVars, err>>

\* 200 with a body that is not JSON: the decode error is logged and raised
BadJson ==
  /\ CanSend
  /\ Raise(Error("json", 200, url, params, nreq + 1, nprobe))

\* 401 or 403 handled like a 429: the request is sent again
AuthErrorRetried ==
  /\ Send
  /\ \E s \in {401, 403}, h \in ErrorHeaders :
       /\ response' = Plain(s, h)
       /\ Receive(s, h)
  /\ params' = [params EXCEPT !.page_size = PAGE_SIZE]
  /\ slept' = 0
  /\ pc' = "request"
  /\ UNCHANGED <<state, persisted, writes, si, schemas, emitted, pending, url,
                 tried_legacy, nyield>>
  /\ UNCHANGED <<syncVars, inputVars, err>>

\* 401 or 403: logged, raise_for_status() raises
AuthError ==
  /\ CanSend
  /\ \E s \in {401, 403} :
       Raise(Error("http", s, url, params, nreq + 1, nprobe))

\* 429: time.sleep(60), then the loop sends the request again
RateLimited ==
  /\ Send
  /\ \E h \in ErrorHeaders :
       /\ response' = Plain(429, h)
       /\ Receive(429, h)
  /\ params' = [params EXCEPT !.page_size = PAGE_SIZE, !.page = RetryPage(@)]
  /\ slept' = Sleep429
  /\ pc' = "request"
  /\ UNCHANGED <<state, persisted, writes, si, schemas, emitted, pending, url,
                 tried_legacy, nyield>>
  /\ UNCHANGED <<syncVars, inputVars, err>>

\* 404 on 'orders' before any probing: the discovery loops are entered
StartProbing ==
  /\ Send
  /\ Probes(Stream, 404, tried_legacy)
  /\ \E h \in ErrorHeaders :
       /\ response' = Plain(404, h)
       /\ Receive(404, h)
  /\ params' = [params EXCEPT !.page_size = PAGE_SIZE]
  /\ slept' = 0
  /\ pc' = "probe"
  /\ UNCHANGED <<state, persisted, writes, si, schemas, emitted, pending, url,
                 tried_legacy, nyield>>
  /\ UNCHANGED <<syncVars, inputVars, err>>

\* any other status for which raise_for_status() raises: logged and raised
FailStatus ==
  /\ CanSend
  /\ \E s \in OtherStatuses :
       /\ ~Probes(Stream, s, tried_legacy)
       /\ RaisesForStatus(s)
       /\ Raise(Error("http", s, url, params, nreq + 1, nprobe))

\* any other status for which raise_for_status() does not raise: the loop
\* body ends and the request is sent again
PassStatus ==
  /\ Send
  /\ \E s \in OtherStatuses, h \in ErrorHeaders :
       /\ ~Probes(Stream, s, tried_legacy)
       /\ ~RaisesForStatus(s)
       /\ response' = Plain(s, h)
       /\ Receive(s, h)
  /\ params' = [params EXCEPT !.page_size = PAGE_SIZE]
  /\ slept' = 0
  /\ pc' = "request"
  /\ UNCHANGED <<state, persisted, writes, si, schemas, emitted, pending, url,
                 tried_legacy, nyield>>
  /\ UNCHANGED <<syncVars, inputVars, err>>

\* make_request(candidate_url, pset.copy()) of the discovery loops
CanSendCandidate ==
  /\ pc = "probe"
  /\ cand[1] <= 3

SendCandidate ==
  /\ CanSendCandidate
  /\ nprobe' = nprobe + 1
  /\ UNCHANGED <<srv, nreq, nyield, emitted>>

\* the candidate's response is received
ReceiveCandidate(status, h) ==
  /\ last_resp' = [status |-> status, headers |-> h, url |-> cand[1] + 1,
                   page |-> params.page, probe |-> TRUE]
  /\ all200' = (all200 /\ status = 200)

\* the candidate request raises: logged, the next candidate is tried
CandidateException ==
  /\ SendCandidate
  /\ cand' = NextCand(cand)
  /\ UNCHANGED <<pc, state, persisted, writes, si, schemas, pending, url, tried_legacy,
                 params, response, last_resp, slept, all200>>
  /\ UNCHANGED <<syncVars, inputVars, err>>

\* the candidate answers with a status other than 200: logged, the next
\* candidate is tried
CandidateRejected ==
  /\ SendCandidate
  /\ \E s \in CandidateStatuses, h \in CandidateHeaders : ReceiveCandidate(s, h)
  /\ slept' = 0
  /\ cand' = NextCand(cand)
  /\ UNCHANGED <<pc, state, persisted, writes, si, schemas, pending, url, tried_legacy,
                 params, response>>
  /\ UNCHANGED <<syncVars, inputVars, err>>

\* the candidate answers 200 with a JSON body: its url and params are adopted
\* and the main loop is restarted
CandidateAdopted ==
  /\ SendCandidate
  /\ \E h \in CandidateHeaders :
       /\ ReceiveCandidate(200, h)
       /\ response' = [Plain(200, h) EXCEPT !.json = TRUE]
  /\ slept' = 0
  /\ url' = cand[1] + 1
  /\ tried_legacy' = TRUE
  /\ params' = Variant(params, cand[2])
  /\ pc' = "request"
  /\ UNCHANGED <<cand, state, persisted, writes, si, schemas, pending>>
  /\ UNCHANGED <<syncVars, inputVars, err>>

\* the candidate answers 200 with a body that is not JSON: its url and params
\* are adopted, then the parse error is raised
CandidateBadJson ==
  /\ CanSendCandidate
  /\ Raise(Error("json", 200, cand[1] + 1, Variant(params, cand[2]), nreq,
                 nprobe + 1))

\* the error carries the answer of the last candidate
ExhaustedErrorOfCandidate ==
  Error("http", last_resp.status, last_resp.url, params, nreq, nprobe)

\* response.raise_for_status() after the discovery loops: response, url and
\* params are still those of the main loop
ExhaustedError == Error("http", response.status, url, params, nreq, nprobe)

\* every candidate failed: logged, raise_for_status() of the 404 response
ProbingExhausted ==
  /\ pc = "probe"
  /\ cand[1] > 3
  /\ Raise(ExhaustedError)

\* the bookmark is written inside the page loop, after each page
EmitPageAndWrite ==
  /\ pc = "records"
  /\ emitted' = emitted + pending
  /\ pending' = 0
  /\ pc' = "resume"
  /\ state' = WriteBookmark(state, Stream, BookmarkVal(end_at))
  /\ persisted' = state'
  /\ writes' = writes + 1
  /\ UNCHANGED <<si, schemas>>
  /\ UNCHANGED <<syncVars, genVars, inputVars, err>>

\* the pages are collected and their records are written after the last one
EmitPageDeferred ==
  /\ pc = "records"
  /\ pc' = "resume"
  /\ UNCHANGED <<state, persisted, writes, si, schemas, emitted, pending>>
  /\ UNCHANGED <<syncVars, genVars, inputVars, err>>

\* for record in page: each record is transformed and written
EmitPage ==
  /\ pc = "records"
  /\ emitted' = emitted + pending
  /\ pending' = 0
  /\ pc' = "resume"
  /\ UNCHANGED <<state, persisted, writes, si, schemas>>
  /\ UNCHANGED <<syncVars, genVars, inputVars, err>>

\* singer.transform or singer.write_record raises on a record of the page
EmitFails ==
  /\ pc = "records"
  /\ pending > 0
  /\ Raise(Error("record", 0, url, params, nreq, nprobe))

\* the generator is resumed after the yield: has_more is false, it ends
StopPaging ==
  /\ pc = "resume"
  /\ ~HasMore(response, PageSizeOf(params))
  /\ pc' = "commit"
  /\ UNCHANGED <<state, persisted, writes, si, schemas, emitted, pending>>
  /\ UNCHANGED <<syncVars, genVars, inputVars, err>>

\* the generator is resumed after the yield: has_more is true, the page
\* number is advanced and the rate-limit headers are honoured
NextPage ==
  /\ pc = "resume"
  /\ HasMore(response, PageSizeOf(params))
  /\ params' = [params EXCEPT !.page = FollowingPage(@)]
  /\ slept' = slept + WaitSeconds(response.headers)
  /\ pc' = "request"
  /\ UNCHANGED <<state, persisted, writes, si, schemas, emitted, pending>>
  /\ UNCHANGED <<srv, url, tried_legacy, response, nreq, nyield, all200, cand,
                 nprobe, last_resp>>
  /\ UNCHANGED <<syncVars, inputVars, err>>

Next ==
  \/ SkipUnselected
  \/ BeginStream
  \/ NextWindow
  \/ SkipUnsupported
  \/ FinishStream
  \/ Return
  \/ Commit
  \/ TransportError
  \/ Page
  \/ NoData
  \/ BadJson
  \/ AuthError
  \/ RateLimited
  \/ StartProbing
  \/ FailStatus
  \/ PassStatus
  \/ CandidateException
  \/ CandidateRejected
  \/ CandidateAdopted
  \/ CandidateBadJson
  \/ ProbingExhausted
  \/ EmitPage
  \/ EmitFails
  \/ StopPaging
  \/ NextPage

Spec == Init /\ [][Next]_vars

\* ============================================================ claims
\* the windows for which client.paginate(stream, params) was called
Queried == {i \in 1..Len(windows) : windows[i].res # "skip"}

\* the windows whose bookmark was written: drained, or skipped as unsupported
Written == {i \in 1..Len(windows) : windows[i].res \in {"ok", "skip"}}

\* the while loop of the recorded stream has ended
StreamFinished == pc \in {"for", "done"} /\ log_of # "none"

\* the bookmark of a stream in a state dict
BookmarkOf(st, id) == GetBookmark(st, id)

\* C1: every window for which paginate is called spans at most one day,
\* also a window that follows a window whose processing raised.
C1_WindowAtMostOneDay ==
  \A i \in Queried : windows[i].e - windows[i].s <= Day

\* C2: the queried windows are contiguous and disjoint: the first begins at
\* the stream's start, each next one begins where the previous one ended, and
\* the last one ends at the stream's end, whether or not a window failed.
C2_WindowsContiguous ==
  /\ \A i \in Queried :
       windows[i].s = IF i = 1 THEN stream_start ELSE windows[i - 1].e
  /\ (StreamFinished /\ Queried # {}) =>
       windows[Len(windows)].e = stream_end_at

\* the last window whose bookmark was written, 0 when there is none
LastWritten == IF Written = {} THEN 0 ELSE CHOOSE i \in Written : \A j \in Written : j <= i

\* C3: the persisted bookmark of a stream never decreases (the loaded bookmark
\* included), and once a window of the stream has been committed it is the
\* end of the last committed window (as the bookmark string renders it).
C3_BookmarkMonotone ==
  [][ /\ \A s \in StreamIds :
           BookmarkOf(persisted', s) >= BookmarkOf(persisted, s)
      /\ LastWritten' # 0 =>
           BookmarkOf(persisted', log_of') = FormatBookmark(windows'[LastWritten'].e)
    ]_vars

\* C3 witness: two windows of a stream are committed and the bookmark is the
\* end of the second
C3_Witness ==
  /\ Cardinality({i \in 1..Len(windows) : windows[i].res = "ok"}) >= 2
  /\ pc = "while"
  /\ BookmarkOf(persisted, log_of) = FormatBookmark(end_at)
  /\ BookmarkOf(persisted, log_of) > BookmarkOf(loaded, log_of)

\* the windows whose processing raised
Failed == {i \in 1..Len(windows) : windows[i].res = "fail"}

\* the last window before k whose bookmark was written, 0 when there is none
LastWrittenBefore(k) ==
  IF \E i \in Written : i < k
    THEN CHOOSE i \in Written : i < k /\ \A j \in Written : j < k => j <= i
    ELSE 0

\* the bookmark as of the end of window i; as loaded when i = 0
BookmarkAfter(i) ==
  IF i = 0 THEN BookmarkOf(loaded, log_of) ELSE FormatBookmark(windows[i].e)

\* C4 as stated: if window k fails, the bookmark persisted when the stream
\* has finished is the end of window k-1 (the pre-run bookmark for k = 1),
\* whatever happens to the windows after k.
C4_BookmarkIsEndOfPreviousWindow ==
  StreamFinished =>
    \A k \in Failed : BookmarkOf(persisted, log_of) = BookmarkAfter(k - 1)

\* C4 amended: if window k fails, the bookmark persisted when the stream has
\* finished is the end of the last window committed before k (the pre-run
\* bookmark when there is none) provided no window after k commits; when a
\* later window commits it is the end of the last committed window.
C4_BookmarkIsEndOfLastCommitted ==
  StreamFinished =>
    \A k \in Failed :
      BookmarkOf(persisted, log_of) =
        IF \E j \in Written : j > k
          THEN FormatBookmark(windows[LastWritten].e)
          ELSE BookmarkAfter(LastWrittenBefore(k))

\* C4 witness: a stream has finished with a failed window between two
\* committed ones
C4_Witness ==
  /\ StreamFinished
  /\ \E k \in Failed :
       /\ \E j \in Written : j > k
       /\ \E i \in Written : i < k
  /\ BookmarkOf(persisted, log_of) = FormatBookmark(stream_end_at)

\* the step in which the processing of the window in hand raises
FailStep ==
  /\ windows # <<>>
  /\ Len(windows') = Len(windows)
  /\ windows[Len(windows)].res = "open"
  /\ windows'[Len(windows)].res = "fail"

\* C5: an exception raised while a window is drained does not leave sync():
\* the step writes no bookmark and goes back to the while loop; every later
\* window up to the stream's end is attempted, and so is every later
\* selected stream.
C5_WindowFailureIsContained ==
  [][ /\ FailStep =>
           /\ persisted' = persisted /\ state' = state /\ writes' = writes
           /\ pc' = "while"
      /\ pc' # "crashed"
      /\ \A i \in 1..(Len(windows') - 1) :
           windows'[i + 1].e = Min(windows'[i].e + Day, stream_end_at')
      /\ (StreamFinished' /\ windows' # <<>>) =>
           windows'[Len(windows')].e = stream_end_at'
      /\ pc' = "done" =>
           \A i \in 1..Len(catalog) :
             catalog[i].selected => schemas'[catalog[i].id] = 1
    ]_vars

\* C5 witness: every window of the first stream failed (its bookmark is as
\* loaded), the window after the first failure was attempted, and the next
\* selected stream has been synced
C5_Witness ==
  /\ pc = "done"
  /\ Len(catalog) = 3
  /\ BookmarkOf(persisted, catalog[1].id) = BookmarkOf(loaded, catalog[1].id)
  /\ schemas[catalog[3].id] = 1
  /\ log_of = catalog[3].id /\ Written # {}

\* the step writes a STATE message
WriteStep == writes' = writes + 1

\* C6: for a supported stream the bookmark of a window is written only when
\* paginate has been drained to exhaustion and every record of every yielded
\* page has been written, never while the window is in progress; and it is
\* written before the first request of the next window.
C6_WriteAfterDrain ==
  [][ /\ (WriteStep /\ Supported(Stream)) =>
           /\ pc = "commit" /\ pending = 0
           /\ response.total = 0 \/ ~HasMore(response, PAGE_SIZE)
           /\ emitted = Min(srv.R, nyield * PAGE_SIZE)
           /\ persisted' = WriteBookmark(persisted, Stream, FormatBookmark(end_at))
      /\ pc \in {"request", "probe", "records", "resume"} => ~WriteStep
      /\ (pc' = "request" /\ Len(windows') > 1
            /\ windows'[Len(windows') - 1].res = "ok") =>
           BookmarkOf(persisted', log_of') =
             FormatBookmark(windows'[Len(windows') - 1].e)
    ]_vars

\* C6 witness: the first request of a window is about to be sent and the
\* bookmark of the window before, which was drained, is already persisted
C6_Witness ==
  /\ pc = "request" /\ nreq = 0
  /\ Len(windows) > 1
  /\ windows[Len(windows) - 1].res = "ok"
  /\ writes >= 1
  /\ BookmarkOf(persisted, log_of) = FormatBookmark(windows[Len(windows) - 1].e)

\* every response of the paginate() call in hand was a 200 carrying
\* page/pages counters consistent with the R records of the window
CountersOnly == all200 /\ srv.shape.counters

\* every response of the paginate() call in hand was a 200 carrying neither
\* page/pages counters nor a links field
BareOnly == all200 /\ ~srv.shape.counters /\ srv.shape.links = "absent"

\* paginate() has ended without raising
Exhausted == pc = "commit"

\* C7 as stated: with consistent counters paginate yields exactly ceil(R/P)
\* pages, in page order, then stops, for every R >= 0, R = 0 included.
C7_YieldsCeilPages ==
  /\ (Exhausted /\ CountersOnly) => nyield = Ceil(srv.R, PAGE_SIZE)
  /\ (pc = "records" /\ CountersOnly) => response.page = nyield

\* C7 amended: with consistent counters paginate yields exactly ceil(R/P)
\* pages, in page order, then stops, for every R >= 1; for R = 0 it yields
\* no page when the body carries total = 0 and one empty page when the body
\* has no total field.
C7_YieldsCeilPagesOrOneEmpty ==
  /\ (Exhausted /\ CountersOnly) =>
       nyield = IF srv.R = 0
                  THEN (IF srv.shape.total THEN 0 ELSE 1)
                  ELSE Ceil(srv.R, PAGE_SIZE)
  /\ (pc = "records" /\ CountersOnly) => response.page = nyield
  /\ CountersOnly => nreq <= Max(1, Ceil(srv.R, PAGE_SIZE))

\* C7 witness: 243 records with counters have been drained in 3 pages
C7_Witness ==
  /\ Exhausted /\ CountersOnly
  /\ srv.R = 243 /\ nyield = 3 /\ nreq = 3 /\ emitted = 243

\* C8 as stated: with neither counters nor links paginate yields every page
\* up to and including the first page with fewer than page_size records and
\* sends no request after it.
C8_StopsAfterFirstShortPage ==
  (Exhausted /\ BareOnly) =>
    /\ nyield = srv.R \div PAGE_SIZE + 1
    /\ nreq = nyield

\* C8 amended: with neither counters nor links paginate sends the requests of
\* the pages up to and including the first page with fewer than page_size
\* records and none after it, and yields each of these pages, except that a
\* response whose body carries total = 0 ends the sequence without being
\* yielded.
C8_StopsAfterFirstShortPageOrNoData ==
  (Exhausted /\ BareOnly) =>
    /\ nreq = srv.R \div PAGE_SIZE + 1
    /\ nyield = IF srv.shape.total /\ srv.R = 0 THEN 0 ELSE nreq

\* C8 witness: pages of 100, 100 and 43 records: 3 pages yielded, 3 requests
C8_Witness ==
  /\ Exhausted /\ BareOnly
  /\ srv.R = 243 /\ nyield = 3 /\ nreq = 3 /\ response.items = 43

\* a request is about to be sent by the paginate() call in hand
AboutToSend == pc = "request" \/ (pc = "probe" /\ cand[1] <= 3)

\* the last response reported remaining calls < 1 and a reset delay
Throttled ==
  /\ last_resp.status # 0
  /\ last_resp.headers.remaining # None /\ last_resp.headers.remaining < 1
  /\ last_resp.headers.reset # None

\* C9 as stated: after any response that reports remaining < 1, no further
\* request of the same paginate() call is sent before the client has blocked
\* for reset + 1 seconds.
C9_WaitsAfterEveryThrottledResponse ==
  (AboutToSend /\ Throttled) => slept >= last_resp.headers.reset + 1

\* C9 amended: after a 200 response whose page was yielded and that reports
\* remaining < 1 with an integer reset, the request of the next page is not
\* sent before the client has blocked for reset + 1 seconds.
C9_WaitsBeforeNextPage ==
  (pc = "request" /\ Throttled /\ last_resp.status = 200 /\ ~last_resp.probe) =>
    slept >= last_resp.headers.reset + 1

\* C9 witness: page 1 came with remaining = 0 and reset = 5, and the client
\* has blocked 6 seconds before the request of page 2
C9_Witness ==
  /\ pc = "request" /\ params.page = 2
  /\ last_resp.status = 200 /\ ~last_resp.probe
  /\ last_resp.headers = [remaining |-> 0, reset |-> 5]
  /\ slept = 6

\* C10 as stated: after any 429 response paginate neither raises nor yields:
\* it has blocked 60 seconds and is about to send the request of the same
\* url and the same page again.
C10_RetriesAfterEvery429 ==
  last_resp.status = 429 =>
    /\ pc = "request" /\ pending = 0
    /\ slept = Sleep429
    /\ url = last_resp.url /\ params.page = last_resp.page

\* C10 amended: after a 429 response to a request of the main loop (a page
\* request, not a candidate request of the probing) paginate neither raises
\* nor yields: it has blocked 60 seconds and is about to send the request of
\* the same url and the same page again, for any number of consecutive 429s.
C10_RetriesAfter429OnPageRequest ==
  (last_resp.status = 429 /\ ~last_resp.probe) =>
    /\ pc = "request" /\ pending = 0
    /\ slept = Sleep429
    /\ url = last_resp.url /\ params.page = last_resp.page

\* C10 witness: page 2 has been answered by 429 twice in a row and is about
\* to be asked for a third time
C10_Witness ==
  /\ pc = "request" /\ nreq = 3 /\ nyield = 1
  /\ last_resp.status = 429 /\ last_resp.page = 2 /\ params.page = 2
  /\ slept = Sleep429

\* the bookmark of the recorded stream before the window in hand was begun
PreWindowBookmark ==
  IF LastWritten = 0
    THEN BookmarkOf(loaded, log_of)
    ELSE FormatBookmark(windows[LastWritten].e)

\* the handler of sync() has caught an HTTP error with one of these statuses
Caught(statuses) == err.kind = "http" /\ err.status \in statuses

\* the window in hand was given up and nothing was written for it
WindowSkipped ==
  /\ pc = "while"
  /\ windows[Len(windows)].res = "fail"
  /\ start_at = windows[Len(windows)].s
  /\ state = persisted
  /\ BookmarkOf(persisted, log_of) = PreWindowBookmark

\* C11 as stated: after a 401 or 403 response to any request of paginate(),
\* the candidate requests of the probing included, paginate() has raised: no
\* call of paginate() is still running with such a response in hand, and
\* sync() has skipped the window with the bookmark at its pre-window value.
C11_AuthErrorEndsPaginate ==
  /\ last_resp.status \notin {401, 403}
  /\ Caught({401, 403}) => WindowSkipped

\* C11 amended: after a 401 or 403 response to a request of the main loop (a
\* page request, not a candidate request of the probing) paginate() has
\* raised without a further request, and sync() has skipped the window with
\* the bookmark at its pre-window value; a 401 or 403 answer to a candidate
\* request is logged and the probing goes on.
C11_AuthErrorOnPageRequestEndsPaginate ==
  /\ last_resp.status \in {401, 403} => last_resp.probe
  /\ Caught({401, 403}) => WindowSkipped

\* C11 witness: page 2 of the second window was answered by 401; the bookmark
\* is the end of the first window
C11_Witness ==
  /\ Caught({401}) /\ err.sent = 2 /\ err.page = 2
  /\ Len(windows) = 2 /\ windows[1].res = "ok"
  /\ WindowSkipped
  /\ BookmarkOf(persisted, log_of) = FormatBookmark(windows[1].e)

\* the response in hand answered a request of the main loop with a status
\* that is not 200, 401, 403 or 429 and is not a 404 on 'orders'
OtherStatusInHand ==
  /\ last_resp.status \notin {0, 200, 401, 403, 429}
  /\ ~last_resp.probe
  /\ ~(last_resp.status = 404 /\ log_of = "orders")

\* C12: for every response whose status is not 200, 401, 403 or 429 and is
\* not a 404 on a fallback-eligible endpoint, paginate() raises and sends no
\* further request: no call of paginate() goes on with such a response in
\* hand, for 4xx and 5xx and also for 204 or 304.
C12_OtherStatusRaises == ~OtherStatusInHand

\* C13: a 404 on an endpoint other than 'orders' makes paginate() raise at
\* once: for such an endpoint no candidate request is ever sent, the url
\* stays the primary one, and the 404 reaches the handler of sync() with no
\* request having followed it.
C13_NoProbingOffOrders ==
  log_of # "orders" =>
    /\ pc # "probe" /\ nprobe = 0 /\ url = 1 /\ ~tried_legacy
    /\ last_resp.status # 404
    /\ Caught({404}) => (err.probes = 0 /\ err.url = 1 /\ WindowSkipped)

\* C13 witness: page 2 of a shipments window was answered by 404 and sync()
\* has caught the error; no candidate request was sent
C13_Witness ==
  /\ log_of = "shipments"
  /\ Caught({404}) /\ err.sent = 2 /\ err.probes = 0
  /\ WindowSkipped

\* candidate bases times parameter variants
Candidates == 3 * 3

\* the number of candidates before <<b, v>> in the order of the loops
Before(c) == 3 * (c[1] - 1) + (c[2] - 1)

\* C14: within one paginate('orders', ..) call the probing is bounded and
\* one-shot: a round sends at most one request per (base, variant) pair, 9 at
\* most, in the order of the loops; it stops at the first candidate that
\* answers 200; once a candidate is adopted no probing is entered again, and
\* a later 404 raises with the count of candidate requests unchanged.
C14_ProbingBoundedOneShot ==
  /\ nprobe <= Candidates
  /\ pc = "probe" => (~tried_legacy /\ nprobe = Before(cand))
  /\ tried_legacy =>
       /\ pc # "probe"
       /\ url = cand[1] + 1 /\ params.variant = cand[2]
       /\ nprobe = Before(cand) + 1
  /\ (Caught({404}) /\ err.url # 1) =>
       (err.probes <= Candidates /\ WindowSkipped)

\* C14 witness: the ninth candidate was adopted after eight failures, the
\* request sent to it was answered 404 and the error has reached sync()
C14_Witness ==
  /\ log_of = "orders"
  /\ Caught({404}) /\ err.url = 4 /\ err.variant = 3
  /\ err.probes = Candidates /\ err.sent = 2

\* every candidate of the probing round has been tried without a 200
Exhausted9 == pc = "probe" /\ cand[1] > 3

\* C15: when a probing round on 'orders' has tried every candidate without a
\* 200 (each answered by some status or failed in transport), paginate()
\* raises the HTTP error of the original 404 response, and the url and the
\* params of the call are still those in effect before the probing: the
\* primary url, the parameter names as requested, the same page.
C15_ExhaustedRaisesOriginal404 ==
  [][ Exhausted9 =>
        /\ url = 1 /\ params.variant = 1 /\ ~tried_legacy
        /\ pc' = "while"
        /\ err'.kind = "http" /\ err'.status = 404
        /\ err'.url = url /\ err'.variant = params.variant
        /\ err'.page = params.page
        /\ err'.probes = Candidates
    ]_vars

\* C15 witness: the 404 of page 1 of an orders window has reached sync()
\* after nine candidate requests
C15_Witness ==
  /\ log_of = "orders"
  /\ Caught({404}) /\ err.url = 1 /\ err.variant = 1
  /\ err.sent = 1 /\ err.probes = Candidates
  /\ WindowSkipped

\* a call of paginate() is running
Paginating == pc \in {"request", "probe", "records", "resume", "commit"}

\* C16: for a selected stream other than 'shipments' and 'orders' sync()
\* sends no request; each window is skipped with bookmark = window end
\* written and persisted, so that when the window loop has ended the
\* bookmark of the stream is the stream end time (as the bookmark string
\* renders it).
C16_UnsupportedOnlyAdvancesBookmark ==
  (log_of \in StreamIds \ {"shipments", "orders"}) =>
    /\ ~Paginating /\ nreq = 0 /\ nprobe = 0 /\ err = NoErr
    /\ \A i \in 1..Len(windows) : windows[i].res = "skip"
    /\ windows # <<>> =>
         /\ state = persisted
         /\ BookmarkOf(persisted, log_of) = FormatBookmark(windows[Len(windows)].e)
    /\ (StreamFinished /\ windows # <<>>) =>
         BookmarkOf(persisted, log_of) = FormatBookmark(stream_end_at)

\* C16 witness: the two windows of 'products' were skipped and the bookmark
\* has moved from the loaded one to the stream end
C16_Witness ==
  /\ StreamFinished /\ log_of = "products"
  /\ Len(windows) = 2
  /\ BookmarkOf(persisted, "products") = FormatBookmark(stream_end_at)
  /\ BookmarkOf(persisted, "products") > BookmarkOf(loaded, "products")

\* C17: whenever the window loop of a selected stream has ended, the start
\* cursor start_at of that stream is at or after the stream end time, also
\* when the last window failed.
C17_LoopEndsWithStartAtEnd ==
  StreamFinished => start_at >= stream_end_at

\* the stream at place j of the catalog has been begun
Begun(j) == j < si \/ (j = si /\ pc # "for")

\* what has been emitted for each stream of the catalog: one schema for a
\* selected stream that has been begun and none for any other; no state
\* written for a stream that is not selected or not begun; records only
\* while the selected stream of the for loop is being paginated
EmissionsInOrder ==
  /\ \A j \in 1..Len(catalog) :
       LET id == catalog[j].id
       IN  /\ schemas[id] = IF catalog[j].selected /\ Begun(j) THEN 1 ELSE 0
           /\ ~(catalog[j].selected /\ Begun(j)) => persisted[id] = loaded[id]
  /\ (Paginating \/ pending > 0 \/ emitted > 0) =>
       (si <= Len(catalog) /\ catalog[si].selected /\ schemas[Stream] = 1)

\* a step that emits a schema, records or a state
Emits ==
  schemas' # schemas \/ emitted' > emitted \/ writes' > writes

\* C18: for each selected stream the schema is emitted exactly once and
\* before any record of the stream; for a stream that is not selected no
\* schema, record or state is emitted; every emission belongs to the stream
\* of the for loop, which only moves forward in the catalog, so all
\* emissions of one stream precede those of the next.
C18_SchemaOncePerSelectedStream ==
  /\ EmissionsInOrder
  /\ [][ /\ EmissionsInOrder'
         /\ si' >= si
         /\ Emits =>
              /\ catalog[si].selected /\ si' = si
              /\ \A s \in StreamIds \ {Stream} :
                   schemas'[s] = schemas[s] /\ persisted'[s] = persisted[s]
     ]_vars

\* C18 witness: a run over shipments (selected), orders (not selected) and
\* products (selected) has ended: one schema each for shipments and products,
\* none for orders, whose state is as loaded
C18_Witness ==
  /\ pc = "done" /\ Len(catalog) = 3
  /\ schemas = [s \in StreamIds |-> IF s = "orders" THEN 0 ELSE 1]
  /\ persisted["orders"] = loaded["orders"]
  /\ persisted["shipments"] # loaded["shipments"]
  /\ persisted["products"] # loaded["products"]

\* the step in which sync() resolves the start and the end of a stream
Resolves == pc = "for" /\ pc' = "while"

\* the prior bookmark of the stream of the for loop: 'created_at', else the
\* legacy 'modifyDate', None when the state has neither
PriorBookmark ==
  IF state[Stream].created_at # None
    THEN state[Stream].created_at
    ELSE state[Stream].modifyDate

\* the end of a stream that starts at s, from one reading of the clock
EndFor(s) == IF one_day /\ s + Day < clock THEN s + Day ELSE clock

\* the end time is set when the stream is begun and windows stay within it
EndReadOnce ==
  /\ Resolves => stream_end_at' = EndFor(start_at')
  /\ ~Resolves => stream_end_at' = stream_end_at
  /\ \A i \in 1..Len(windows') : windows'[i].e <= stream_end_at'

\* C19 as stated: the start is the prior bookmark if the state has one, else
\* the default start of the configuration if it supplies one, else now minus
\* 30 days; the end is read from the clock once per stream, before the first
\* window.
C19_StartFromBookmarkConfigLookback ==
  [][ /\ Resolves =>
           /\ start_at' =
                IF PriorBookmark # None THEN ParseBookmark(PriorBookmark)
                ELSE IF config.start_date # None
                  THEN ParseBookmark(config.start_date)
                  ELSE clock - LookbackDays * Day
           /\ end_at' = start_at'
      /\ EndReadOnce
    ]_vars

\* C19 amended: the start is the prior bookmark if the state has one
\* ('created_at', else the legacy 'modifyDate'), else now minus 30 days,
\* whatever the configuration holds: no default start is read from it; the
\* end is read from the clock once per stream, before the first window.
C19_StartFromBookmarkElseLookback ==
  [][ /\ Resolves =>
           /\ start_at' =
                IF PriorBookmark # None THEN ParseBookmark(PriorBookmark)
                ELSE clock - LookbackDays * Day
           /\ end_at' = start_at'
      /\ EndReadOnce
    ]_vars

\* C19 witness: no bookmark and a default start in the configuration: the
\* stream was started 30 days before now and its window is committed
C19_Witness ==
  /\ config.start_date # None
  /\ log_of = "shipments"
  /\ BookmarkOf(loaded, "shipments") = None
  /\ stream_start = Now0 - LookbackDays * Day
  /\ Len(windows) = 1 /\ windows[1].res = "ok"
  /\ windows[1].e = stream_end_at

\* the body of the page just yielded carries both counters
HasCounters == response.page # None /\ response.pages # None

\* the generator is resumed after a yield: it goes on to the request of
\* page + 1 exactly when cont holds, and ends otherwise
Decides(cont) ==
  pc = "resume" =>
    /\ cont => (pc' = "request" /\ params'.page = params.page + 1)
    /\ ~cont => (pc' = "commit" /\ params' = params)

\* C20 as stated: after each yielded page the first applicable strategy
\* decides: (1) both counters in the body: continue iff page < pages,
\* whatever the links field and the page fill; (2) else a links field is
\* present: continue iff its next value is non-null; (3) else continue iff
\* the page holds exactly page_size records.  The next request asks for
\* page + 1.
C20_ContinuationNextNonNull ==
  [][ Decides(IF HasCounters THEN response.page < response.pages
              ELSE IF response.links # "absent" THEN response.next # "null"
              ELSE response.items = PAGE_SIZE)
    ]_vars

\* C20 amended: as stated, with (2) reading: else if a links field is
\* present, continue iff it is a dict whose next value is truthy, that is
\* neither null nor an empty value such as {} or "".
C20_ContinuationNextTruthy ==
  [][ Decides(IF HasCounters THEN response.page < response.pages
              ELSE IF response.links # "absent"
                THEN response.links = "dict" /\ response.next = "href"
              ELSE response.items = PAGE_SIZE)
    ]_vars

\* C20 witness: page 1 came without counters and with a links dict whose
\* next is a link, holding fewer than page_size records: page 2 is about to
\* be requested
C20_Witness ==
  /\ pc = "request" /\ params.page = 2 /\ nyield = 1
  /\ ~HasCounters /\ response.links = "dict" /\ response.next = "href"
  /\ response.items < PAGE_SIZE

RECURSIVE Frontier(_)
\* how far the queries drained without error reach from the start of the
\* stream, over the first i windows: a drained query that begins at or
\* before the frontier moves it to its end
Frontier(i) ==
  IF i = 0 THEN stream_start
  ELSE LET f == Frontier(i - 1)
           w == windows[i]
       IN  IF w.res = "ok" /\ w.s <= f THEN Max(f, w.e) ELSE f

\* the query after a failed one begins where the failed one began and ends
\* at the next window end
FailedWindowIsRequeried ==
  \A i \in Failed :
    i < Len(windows) =>
      /\ windows[i + 1].s = windows[i].s
      /\ windows[i + 1].e = WindowEnd(windows[i].e, stream_end_at)

\* every instant from the start of the stream up to the persisted bookmark
\* lies in the range of a query that was drained without error
BookmarkIsCovered ==
  BookmarkOf(persisted, log_of) # None =>
    ParseBookmark(BookmarkOf(persisted, log_of)) <= Frontier(Len(windows))

\* C21 as stated: a failed window leaves start_at alone, so the next query
\* begins at the start of the failed window and ends at the next window end;
\* and for every stream, at every point of the run, the persisted bookmark is
\* not past the range covered by queries drained without error.
C21_BookmarkWithinDrainedQueries ==
  log_of # "none" => (FailedWindowIsRequeried /\ BookmarkIsCovered)

\* C21 amended: as stated, for the supported streams ('shipments' and
\* 'orders'); for any other selected stream the bookmark is persisted at
\* every window end although no query is made.
C21_BookmarkWithinDrainedQueriesIfSupported ==
  log_of \in {"shipments", "orders"} =>
    (FailedWindowIsRequeried /\ BookmarkIsCovered)

\* C21 witness: the first window failed, the second query began at the
\* start of the first and was drained, and the bookmark is its end
C21_Witness ==
  /\ log_of = "shipments" /\ Len(windows) = 2
  /\ windows[1].res = "fail" /\ windows[2].res = "ok"
  /\ windows[2].s = stream_start /\ windows[2].e > windows[1].e
  /\ BookmarkOf(persisted, "shipments") = FormatBookmark(windows[2].e)

\* paginate() is at a request: of a page, or of a candidate of the probing
AtRequest == pc \in {"request", "probe"}

\* the records of the pages yielded so far by the paginate() call in hand
RecordsYielded == Min(srv.R, nyield * PAGE_SIZE)

\* C22: pagination is lazy and interleaved with emission: a request, and a
\* rate-limit sleep, happens only when every record of every page yielded so
\* far has been written; so when a request fails, the records of the pages
\* before it have been written while no bookmark or state is written for
\* the window.
C22_PagesEmittedBeforeNextRequest ==
  [][ /\ AtRequest => (pending = 0 /\ emitted = RecordsYielded)
      /\ slept' > slept => pending = 0
      /\ (AtRequest /\ pc' = "while") =>
           /\ err'.yielded = nyield /\ err'.emitted = RecordsYielded
           /\ state' = state /\ persisted' = persisted /\ writes' = writes
           /\ start_at' = start_at
    ]_vars

\* C22 witness: the request of page 3 failed after the 200 records of pages
\* 1 and 2 were written; the window is skipped without a bookmark
C22_Witness ==
  /\ err.kind = "http" /\ err.sent = 3 /\ err.page = 3
  /\ err.yielded = 2 /\ err.emitted = 2 * PAGE_SIZE
  /\ WindowSkipped

\* whole or part days from a to b, zero when a >= b
DaysBetween(a, b) == IF a >= b THEN 0 ELSE Ceil(b - a, Day)

\* C23: the window loop of a stream runs exactly
\* ceil((stream_end - start) / 1 day) iterations, zero when start >= end,
\* whatever mix of committed, skipped and failed windows occurs: at every
\* point the iterations done and the days left from end_at add up to that
\* number, and the window end strictly increases in every iteration, so the
\* loop ends once every call of paginate() has ended.
C23_IterationsAreDaysBetween ==
  log_of # "none" =>
    /\ Len(windows) + DaysBetween(end_at, stream_end_at)
         = DaysBetween(stream_start, stream_end_at)
    /\ \A i \in 1..Len(windows) :
         /\ windows[i].e > (IF i = 1 THEN stream_start ELSE windows[i - 1].e)
         /\ windows[i].e <= stream_end_at
    /\ StreamFinished =>
         /\ Len(windows) = DaysBetween(stream_start, stream_end_at)
         /\ end_at >= stream_end_at

\* C23 witness: a stream of two days and ten hours has ended after three
\* iterations, of which the first and the last failed
C23_Witness ==
  /\ StreamFinished /\ Len(windows) = 3
  /\ stream_end_at - stream_start > 2 * Day
  /\ windows[1].res = "fail" /\ windows[2].res = "ok" /\ windows[3].res = "fail"

====
